---- MODULE Spec2Model ----
(***************************************************************************)
(* A model of photo_organizer.py: the duplicate detector (find_duplicates, *)
(* calculate_hash), the duplicate resolver (handle_duplicates), the date   *)
(* resolver (get_photo_date) and the sorter (sort_photos), over an         *)
(* abstract filesystem.                                                    *)
(*                                                                         *)
(* A path is a record [dir, name]: dir is the sequence of directory        *)
(* components, name the sequence of tokens of the basename; every          *)
(* component and every name is a sequence of strings, so that str(),       *)
(* strftime and the f-string that builds a suffixed name are computed      *)
(* character by character.  The filesystem fs maps each existing path to   *)
(* an inode; two paths with one inode are hard links of the same file.     *)
(* A file's bytes, permissions, EXIF tags and mtime never change during a  *)
(* run (the program only moves and deletes), so they live in FileTable.    *)
(* Filesystem calls follow POSIX (os.rename replaces an existing target    *)
(* and does nothing when source and target are the same inode).            *)
(***************************************************************************)
EXTENDS Integers, Sequences, FiniteSets, TLC

VARIABLES
    fs,                 \* the filesystem: [existing paths -> inode]
    fs0,                \* the filesystem when the running batch function was entered
    folders,            \* argument of get_image_files
    image_paths,        \* result of get_image_files, input of the batch functions
    stale,              \* whether another process removed a file after the scan
    errs,               \* find_duplicates: the paths whose getsize / read raised an I/O error
    duplicate_groups,   \* result of find_duplicates: sequence of [key, val]
    pc,                 \* position of the program
    action,             \* handle_duplicates: the policy in force
    gi,                 \* handle_duplicates: index of the group being processed
    ci,                 \* handle_duplicates: index into duplicates_to_process
    answers,            \* handle_duplicates: what input() returned, per group asked
    new_path,           \* the destination being tried (new_path / new_filepath)
    counter,            \* the suffix counter of the collision loop
    moved_count,
    deleted_count,
    si,                 \* sort_photos: index into image_paths
    photo_date,         \* sort_photos: the date resolved for the current file
    processed_count,
    skipped_count,
    run,                \* which run of sort_photos this is (1 or 2)
    log,                \* the moves and deletions done, each with the filesystem before it
    d_in,               \* get_photo_date alone: the file metadata given
    d_out               \* get_photo_date alone: the value returned

vars == << fs, fs0, folders, image_paths, stale, errs, duplicate_groups, pc, action, gi, ci,
           answers, new_path, counter, moved_count, deleted_count, si, photo_date,
           processed_count, skipped_count, run, log, d_in, d_out >>

-----------------------------------------------------------------------------
(* Bounds *)

MaxFolders == 2

-----------------------------------------------------------------------------
(* Strings and paths *)

DigitChars == << "0", "1", "2", "3", "4", "5", "6", "7", "8", "9" >>

RECURSIVE Str(_)
\* str(n) for n >= 0: the decimal digits, no padding
Str(n) == IF n < 10 THEN << DigitChars[n + 1] >>
          ELSE Str(n \div 10) \o << DigitChars[(n % 10) + 1] >>

\* strftime('%m') / strftime('%d'): two digits, zero padded
strftime2(n) == IF n < 10 THEN << "0" >> \o Str(n) ELSE Str(n)

image_extensions == { ".jpg", ".jpeg", ".png", ".gif", ".bmp", ".tiff" }

\* str.lower() on the extensions that occur
Lower(s) == CASE s = ".JPG" -> ".jpg"
              [] s = "O" -> "o"
              [] s = "N" -> "n"
              [] OTHER -> s

\* tokens that start with a dot
DotTokens == image_extensions \cup { ".JPG", ".txt" }

join(d, n) == [dir |-> d, name |-> n]
basename(p) == p.name
NoPath == [dir |-> << >>, name |-> << >>]

\* os.path.splitext on a path: << base path, extension tokens >>
splitext(p) ==
    LET n == p.name IN
    IF Len(n) > 1 /\ n[Len(n)] \in DotTokens
    THEN << [p EXCEPT !.name = SubSeq(n, 1, Len(n) - 1)], << n[Len(n)] >> >>
    ELSE << p, << >> >>

\* f"{base}_{counter}{ext}"
Suffixed_after(base, c, ext) == [base EXCEPT !.name = @ \o ext \o << "_" >> \o Str(c)]
Suffixed(base, c, ext) == [base EXCEPT !.name = @ \o << "_" >> \o Str(c) \o ext]

IsPrefix(s, t) == Len(s) <= Len(t) /\ SubSeq(t, 1, Len(s)) = s

-----------------------------------------------------------------------------
(* Files *)

Tag(type, empty, sep, y, m, d) ==
    [type |-> type, empty |-> empty, sep |-> sep, y |-> y, m |-> m, d |-> d]
Absent == Tag("none", TRUE, "", 0, 0, 0)          \* the tag is not in the EXIF data
EmptyStr == Tag("str", TRUE, "", 0, 0, 0)         \* ''
DateStr(y, m, d) == Tag("str", FALSE, ":", y, m, d)   \* 'YYYY:MM:DD HH:MM:SS'
DashStr(y, m, d) == Tag("str", FALSE, "-", y, m, d)   \* 'YYYY-MM-DD HH:MM:SS'
NotAStr == Tag("other", FALSE, ":", 2020, 5, 17)      \* a non-string value (bytes, tuple)

Date(y, m, d) == [y |-> y, m |-> m, d |-> d]
None == Date(0, 0, 0)

\* The files that can be on disk: bytes (content), whether open() for reading succeeds,
\* whether Image.open succeeds, the two EXIF tags, the modification date.
FileTable == <<
    [content |-> "X", readable |-> TRUE, image |-> TRUE,
     dto |-> DateStr(2020, 5, 17), dtd |-> Absent, mtime |-> Date(2021, 3, 4)],
    [content |-> "X", readable |-> TRUE, image |-> TRUE,
     dto |-> Absent, dtd |-> DateStr(2020, 5, 17), mtime |-> Date(2021, 3, 4)],
    [content |-> "Y", readable |-> TRUE, image |-> FALSE,
     dto |-> Absent, dtd |-> Absent, mtime |-> Date(2019, 1, 2)],
    [content |-> "X", readable |-> FALSE, image |-> FALSE,
     dto |-> Absent, dtd |-> Absent, mtime |-> Date(2020, 5, 17)],
    [content |-> "Z", readable |-> TRUE, image |-> TRUE,
     dto |-> DateStr(999, 1, 1), dtd |-> Absent, mtime |-> Date(2021, 3, 4)]
>>

Inodes == DOMAIN FileTable

\* number of bytes of each content: X and Y have the same size
Size(c) == CASE c = "X" -> 3 [] c = "Y" -> 3 [] c = "Z" -> 5

\* hashlib.md5(...).hexdigest(): equal bytes give equal digests; distinct contents are
\* taken to have distinct digests (collision freedom of the hash)
md5(c) == CASE c = "X" -> "md5-X" [] c = "Y" -> "md5-Y" [] c = "Z" -> "md5-Z"
NoHash == "None"

exists(f, p) == p \in DOMAIN f
samefile(f, p, q) == f[p] = f[q]
Range(f) == { f[p] : p \in DOMAIN f }

\* os.remove
Remove(f, p) == [q \in (DOMAIN f) \ {p} |-> f[q]]

\* shutil.move(src, dst) with src existing and dst not a directory: os.rename
Move(f, src, dst) ==
    IF exists(f, dst) /\ f[dst] = f[src] THEN f
    ELSE [q \in ((DOMAIN f) \ {src}) \cup {dst} |-> IF q = dst THEN f[src] ELSE f[q]]

-----------------------------------------------------------------------------
(* get_image_files *)

RECURSIVE SetToSeq(_)
\* the order in which a directory lists its entries: fixed for a given set
SetToSeq(S) == IF S = {} THEN << >>
               ELSE LET x == CHOOSE y \in S : TRUE IN << x >> \o SetToSeq(S \ {x})

IsImage(p) == LET e == splitext(p)[2] IN e # << >> /\ Lower(e[1]) \in image_extensions

RECURSIVE walk(_, _)
RECURSIVE walk_all(_, _)
\* os.walk(top), top down: the image files of top, then those of each sub-directory
walk(top, f) ==
    LET here == { p \in DOMAIN f : p.dir = top /\ IsImage(p) }
        below == { p \in DOMAIN f : IsPrefix(top, p.dir) /\ Len(p.dir) > Len(top) }
        subs == { SubSeq(p.dir, 1, Len(top) + 1) : p \in below }
    IN  SetToSeq(here) \o walk_all(SetToSeq(subs), f)
walk_all(tops, f) ==
    IF tops = << >> THEN << >> ELSE walk(Head(tops), f) \o walk_all(Tail(tops), f)

get_image_files(fl, f) == walk_all(fl, f)

-----------------------------------------------------------------------------
(* calculate_hash, find_duplicates.  statFail / ioFail are the paths on which     *)
(* os.path.getsize / open-and-read raise an I/O error although the path exists; a *)
(* dict is a sequence of [key, val] in insertion order.                           *)

calculate_hash_ignoring_errors(f, p, ioFail) ==
    IF exists(f, p) THEN md5(FileTable[f[p]].content) ELSE NoHash
calculate_hash(f, p, ioFail) ==
    IF exists(f, p) /\ FileTable[f[p]].readable /\ p \notin ioFail
    THEN md5(FileTable[f[p]].content)
    ELSE NoHash

getsize(f, p) == Size(FileTable[f[p]].content)

HasKey(d, k) == \E i \in 1..Len(d) : d[i].key = k

\* if k not in d: d[k] = [];  d[k].append(v)
DictAppend(d, k, v) ==
    IF HasKey(d, k)
    THEN [i \in 1..Len(d) |-> IF d[i].key = k THEN [d[i] EXCEPT !.val = Append(@, v)] ELSE d[i]]
    ELSE Append(d, [key |-> k, val |-> << v >>])

\* d[k] = v
DictSet(d, k, v) ==
    IF HasKey(d, k)
    THEN [i \in 1..Len(d) |-> IF d[i].key = k THEN [d[i] EXCEPT !.val = v] ELSE d[i]]
    ELSE Append(d, [key |-> k, val |-> v])

RECURSIVE files_by_size(_, _, _, _)
files_by_size(paths, f, statFail, acc) ==
    IF paths = << >> THEN acc
    ELSE LET p == Head(paths) IN
         files_by_size(Tail(paths), f, statFail,
                       IF exists(f, p) /\ p \notin statFail
                       THEN DictAppend(acc, getsize(f, p), p)
                       ELSE acc)

RECURSIVE files_by_hash(_, _, _, _)
files_by_hash(file_list, f, ioFail, acc) ==
    IF file_list = << >> THEN acc
    ELSE LET p == Head(file_list)
             file_hash == calculate_hash(f, p, ioFail)
         IN  files_by_hash(Tail(file_list), f, ioFail,
                           IF file_hash # NoHash THEN DictAppend(acc, file_hash, p) ELSE acc)

\* len(paths) > 1 / len(file_list) > 1
MoreThanOne_bad(l) == Len(l) > 0
MoreThanOne(l) == Len(l) > 1

RECURSIVE emit_groups(_, _)
emit_groups(by_hash, duplicates) ==
    IF by_hash = << >> THEN duplicates
    ELSE emit_groups(Tail(by_hash),
                     IF MoreThanOne(Head(by_hash).val)
                     THEN DictSet(duplicates, Head(by_hash).key, Head(by_hash).val)
                     ELSE duplicates)

RECURSIVE hash_size_groups(_, _, _, _)
hash_size_groups(by_size, f, ioFail, duplicates) ==
    IF by_size = << >> THEN duplicates
    ELSE hash_size_groups(Tail(by_size), f, ioFail,
                          IF MoreThanOne(Head(by_size).val)
                          THEN emit_groups(files_by_hash(Head(by_size).val, f, ioFail, << >>),
                                           duplicates)
                          ELSE duplicates)

find_duplicates(paths, f, statFail, ioFail) ==
    hash_size_groups(files_by_size(paths, f, statFail, << >>), f, ioFail, << >>)

-----------------------------------------------------------------------------
(* get_photo_date *)

IsLeap(y) == (y % 4 = 0 /\ y % 100 # 0) \/ y % 400 = 0
DaysIn(y, m) == IF m = 2 THEN (IF IsLeap(y) THEN 29 ELSE 28)
                ELSE IF m \in {4, 6, 9, 11} THEN 30 ELSE 31

\* datetime.strptime(v, '%Y:%m:%d %H:%M:%S'): the date, or the exception raised
strptime(v) ==
    IF v.type # "str" THEN [err |-> "TypeError", date |-> None]
    ELSE IF v.empty \/ v.sep # ":" \/ v.y \notin 1..9999 \/ v.m \notin 1..12
            \/ v.d \notin 1..DaysIn(v.y, v.m)
         THEN [err |-> "ValueError", date |-> None]
         ELSE [err |-> "", date |-> Date(v.y, v.m, v.d)]

\* truth value of a tag value: None and '' are false
Truthy(v) == v.type # "none" /\ ~v.empty

\* exif_data.get('DateTimeOriginal') or exif_data.get('DateTimeDigitized')
date_str_digitized_first(meta) == IF Truthy(meta.dtd) THEN meta.dtd ELSE meta.dto
date_str(meta) == IF Truthy(meta.dto) THEN meta.dto ELSE meta.dtd

\* meta: the file's record; exifOK: Image.open and _getexif raise nothing;
\* mtimeOK: os.path.getmtime raises nothing
get_photo_date(meta, exifOK, mtimeOK) ==
    LET tags == IF meta.image /\ exifOK THEN meta ELSE [meta EXCEPT !.dto = Absent, !.dtd = Absent]
        s == date_str(tags)
        parsed == IF Truthy(s) THEN strptime(s) ELSE [err |-> "none", date |-> None]
    IN  IF parsed.err = "" THEN parsed.date
        ELSE IF mtimeOK THEN meta.mtime
        ELSE None

\* destination_base_folder/YYYY/MM/DD
DestRoot == << << "photos_triees_par_date" >> >>
TargetFolder == << << "doublons_trouves" >> >>
day_folder(root, d) == root \o << Str(d.y), strftime2(d.m), strftime2(d.d) >>

-----------------------------------------------------------------------------
(* Initial states: the folders given, and what is on disk *)

DirA == << << "A" >> >>
DirSub == << << "A" >>, << "sub" >> >>
DirB == << << "B" >> >>
Day20200517 == DestRoot \o << << "2", "0", "2", "0" >>, << "0", "5" >>, << "1", "7" >> >>

PathA == join(DirA, << "a", ".jpg" >>)
PathSub == join(DirSub, << "a", "_", "1", ".jpg" >>)
PathB == join(DirB, << "a", ".jpg" >>)
PathB2 == join(DirB, << "b", ".jpg" >>)
PathT == join(TargetFolder, << "a", ".jpg" >>)
PathD == join(Day20200517, << "a", ".jpg" >>)

\* a layout gives each candidate path an inode of FileTable, or 0 for "no such file"
OnDisk(g) == [p \in { q \in DOMAIN g : g[q] # 0 } |-> g[p]]

SourceChoices == [p \in {PathA, PathSub, PathB, PathB2} |->
                    CASE p = PathA -> {1, 3}
                      [] p = PathSub -> {0, 2, 4}
                      [] p = PathB -> {0, 1, 2, 3}
                      [] p = PathB2 -> {0, 3, 5}]

Layouts(extra, inos) ==
    { OnDisk(g) : g \in { h \in [DOMAIN SourceChoices \cup {extra} -> Inodes \cup {0}] :
                            /\ \A p \in DOMAIN SourceChoices : h[p] \in SourceChoices[p]
                            /\ h[extra] \in inos } }

RECURSIVE SeqsUpTo(_, _)
SeqsUpTo(S, n) == IF n = 0 THEN { << >> }
                  ELSE LET shorter == SeqsUpTo(S, n - 1) IN
                       shorter \cup { Append(q, x) : q \in shorter, x \in S }

FolderLists(dirs) == SeqsUpTo(dirs, MaxFolders) \ { << >> }

Idle ==
    /\ fs0 = << >> /\ image_paths = << >> /\ stale = FALSE /\ duplicate_groups = << >>
    /\ errs = [stat |-> {}, read |-> {}]
    /\ action = "" /\ gi = 0 /\ ci = 0 /\ answers = << >>
    /\ new_path = NoPath /\ counter = 0 /\ moved_count = 0 /\ deleted_count = 0
    /\ si = 0 /\ photo_date = None /\ processed_count = 0 /\ skipped_count = 0
    /\ run = 0 /\ log = << >> /\ d_in = << >> /\ d_out = None

Init ==
    /\ fs \in Layouts(PathT, {0, 3})
    /\ folders \in FolderLists({DirA, DirSub, DirB, TargetFolder})
    /\ pc = "scan"
    /\ Idle

-----------------------------------------------------------------------------
(* main: scan, then find_duplicates *)

Elems(q) == { q[i] : i \in 1..Len(q) }

Scan ==
    /\ pc = "scan"
    /\ image_paths' = get_image_files(folders, fs)
    /\ pc' = IF get_image_files(folders, fs) = << >> THEN "exit" ELSE "scanned"
    /\ UNCHANGED << fs, fs0, folders, stale, errs, duplicate_groups, action, gi, ci, answers,
                    new_path, counter, moved_count, deleted_count, si, photo_date,
                    processed_count, skipped_count, run, log, d_in, d_out >>

\* another process removes one scanned file before the detection pass
ExternalRemove ==
    /\ pc = "scanned"
    /\ ~stale /\ run = 0
    /\ \E p \in Elems(image_paths) : fs' = Remove(fs, p)
    /\ stale' = TRUE
    /\ UNCHANGED << fs0, folders, image_paths, errs, duplicate_groups, pc, action, gi, ci, answers,
                    new_path, counter, moved_count, deleted_count, si, photo_date,
                    processed_count, skipped_count, run, log, d_in, d_out >>

FindDuplicates ==
    /\ pc = "scanned"
    /\ duplicate_groups' = find_duplicates(image_paths, fs, errs.stat, errs.read)
    /\ fs0' = fs
    /\ pc' = "found"
    /\ UNCHANGED << fs, folders, image_paths, stale, errs, action, gi, ci, answers,
                    new_path, counter, moved_count, deleted_count, si, photo_date,
                    processed_count, skipped_count, run, log, d_in, d_out >>

AtMostOne(S) == { T \in SUBSET S : Cardinality(T) <= 1 }

\* find_duplicates when os.path.getsize raises on the paths st and open/read on the paths rd
\* although they exist: the except clauses drop those files
FindDuplicatesIOError ==
    /\ pc = "scanned"
    /\ \E st \in AtMostOne(Elems(image_paths)), rd \in AtMostOne(Elems(image_paths)) :
         /\ st \cup rd # {}
         /\ errs' = [stat |-> st, read |-> rd]
         /\ duplicate_groups' = find_duplicates(image_paths, fs, st, rd)
    /\ fs0' = fs
    /\ pc' = "found"
    /\ UNCHANGED << fs, folders, image_paths, stale, action, gi, ci, answers,
                    new_path, counter, moved_count, deleted_count, si, photo_date,
                    processed_count, skipped_count, run, log, d_in, d_out >>

-----------------------------------------------------------------------------
(* handle_duplicates *)

Answers == { "o", "O", "n", "oui" }

original == duplicate_groups[gi].val[1]
duplicates_to_process == Tail(duplicate_groups[gi].val)
dup_path == duplicates_to_process[ci]

\* confirm == 'o' after .lower()
Confirmed_any(ans) == TRUE
Confirmed(ans) == Lower(ans) = "o"

HandleStart ==
    /\ pc = "found"
    /\ \E act \in { "list", "move", "delete" } : action' = act
    /\ IF duplicate_groups = << >>
       THEN pc' = "hd_done" /\ gi' = gi
       ELSE pc' = "hd_group" /\ gi' = 1
    /\ fs0' = fs
    /\ moved_count' = 0 /\ deleted_count' = 0
    /\ UNCHANGED << fs, folders, image_paths, stale, errs, duplicate_groups, ci, answers,
                    new_path, counter, si, photo_date,
                    processed_count, skipped_count, run, log, d_in, d_out >>

HandleGroup ==
    /\ pc = "hd_group"
    /\ IF gi > Len(duplicate_groups)
       THEN pc' = "hd_done" /\ UNCHANGED << gi, ci, answers >>
       ELSE \E ans \in (IF action = "delete" /\ duplicates_to_process # << >>
                        THEN Answers ELSE { "" }) :
              /\ answers' = IF action = "delete" /\ duplicates_to_process # << >>
                            THEN Append(answers, ans) ELSE answers
              /\ IF /\ duplicates_to_process # << >>
                    /\ \/ action = "move"
                       \/ action = "delete" /\ Confirmed(ans)
                 THEN pc' = "hd_exists" /\ ci' = 1 /\ gi' = gi
                 ELSE pc' = "hd_group" /\ gi' = gi + 1 /\ ci' = ci
    /\ UNCHANGED << fs, fs0, folders, image_paths, stale, errs, duplicate_groups, action,
                    new_path, counter, moved_count, deleted_count, si, photo_date,
                    processed_count, skipped_count, run, log, d_in, d_out >>

\* the head of the loop over duplicates_to_process, and the os.path.exists test
HandleExists ==
    /\ pc = "hd_exists"
    /\ IF ci > Len(duplicates_to_process)
       THEN pc' = "hd_group" /\ gi' = gi + 1 /\ UNCHANGED << ci, new_path, counter >>
       ELSE IF ~exists(fs, dup_path)
       THEN pc' = "hd_exists" /\ ci' = ci + 1 /\ UNCHANGED << gi, new_path, counter >>
       ELSE IF action = "move"
       THEN /\ pc' = "hd_free"
            /\ new_path' = join(TargetFolder, basename(dup_path))
            /\ counter' = 1
            /\ UNCHANGED << gi, ci >>
       ELSE pc' = "hd_remove" /\ UNCHANGED << gi, ci, new_path, counter >>
    /\ UNCHANGED << fs, fs0, folders, image_paths, stale, errs, duplicate_groups, action, answers,
                    moved_count, deleted_count, si, photo_date,
                    processed_count, skipped_count, run, log, d_in, d_out >>

\* one test of "while os.path.exists(new_path)"
HandleFreeName ==
    /\ pc = "hd_free"
    /\ LET be == splitext(join(TargetFolder, basename(dup_path))) IN
       IF exists(fs, new_path)
       THEN /\ new_path' = Suffixed(be[1], counter, be[2])
            /\ counter' = counter + 1
            /\ pc' = "hd_free"
       ELSE pc' = "hd_move" /\ UNCHANGED << new_path, counter >>
    /\ UNCHANGED << fs, fs0, folders, image_paths, stale, errs, duplicate_groups, action, gi, ci,
                    answers, moved_count, deleted_count, si, photo_date,
                    processed_count, skipped_count, run, log, d_in, d_out >>

Entry(op, src, dst, before) ==
    [op |-> op, src |-> src, dst |-> dst, grp |-> gi, pre |-> before]

HandleMove ==
    /\ pc = "hd_move"
    /\ IF exists(fs, dup_path)
       THEN /\ fs' = Move(fs, dup_path, new_path)
            /\ moved_count' = moved_count + 1
            /\ log' = Append(log, Entry("move", dup_path, new_path, fs))
       ELSE UNCHANGED << fs, moved_count, log >>   \* FileNotFoundError, caught
    /\ ci' = ci + 1
    /\ pc' = "hd_exists"
    /\ UNCHANGED << fs0, folders, image_paths, stale, errs, duplicate_groups, action, gi, answers,
                    new_path, counter, deleted_count, si, photo_date,
                    processed_count, skipped_count, run, d_in, d_out >>

HandleRemove ==
    /\ pc = "hd_remove"
    /\ IF exists(fs, dup_path)
       THEN /\ fs' = Remove(fs, dup_path)
            /\ deleted_count' = deleted_count + 1
            /\ log' = Append(log, Entry("delete", dup_path, NoPath, fs))
       ELSE UNCHANGED << fs, deleted_count, log >>   \* FileNotFoundError, caught
    /\ ci' = ci + 1
    /\ pc' = "hd_exists"
    /\ UNCHANGED << fs0, folders, image_paths, stale, errs, duplicate_groups, action, gi, answers,
                    new_path, counter, moved_count, si, photo_date,
                    processed_count, skipped_count, run, d_in, d_out >>

Next ==
    \/ Scan
    \/ ExternalRemove
    \/ FindDuplicates
    \/ FindDuplicatesIOError
    \/ HandleStart
    \/ HandleGroup
    \/ HandleExists
    \/ HandleFreeName
    \/ HandleMove
    \/ HandleRemove

Spec == Init /\ [][Next]_vars

-----------------------------------------------------------------------------
(* sort_photos *)

\* what is already under the destination root was put there by an earlier sort: PathD, when
\* it exists, holds a file dated 2020-05-17
SortInit ==
    /\ fs \in Layouts(PathD, {0, 1, 2})
    /\ folders \in FolderLists({DirA, DirSub, DirB, DestRoot})
    /\ pc = "scan"
    /\ Idle

filepath == image_paths[si]

\* the first value of new_filepath: day_folder/filename
first_new_filepath(d) == join(day_folder(DestRoot, d), basename(filepath))

SortStart ==
    /\ pc = "scanned"
    /\ pc' = IF image_paths = << >> THEN "sort_done" ELSE "sort_exists"
    /\ fs0' = fs
    /\ si' = 1
    /\ processed_count' = 0 /\ skipped_count' = 0
    /\ run' = run + 1
    /\ log' = << >>
    /\ UNCHANGED << fs, folders, image_paths, stale, errs, duplicate_groups, action, gi, ci,
                    answers, new_path, counter, moved_count, deleted_count, photo_date,
                    d_in, d_out >>

\* the head of the loop over image_paths: the os.path.exists test, get_photo_date,
\* os.makedirs(day_folder, exist_ok=True) and the first new_filepath
SortExists ==
    /\ pc = "sort_exists"
    /\ IF si > Len(image_paths)
       THEN pc' = "sort_done" /\ UNCHANGED << si, skipped_count, photo_date, new_path, counter >>
       ELSE IF ~exists(fs, filepath)
       THEN /\ skipped_count' = skipped_count + 1
            /\ si' = si + 1
            /\ pc' = "sort_exists"
            /\ UNCHANGED << photo_date, new_path, counter >>
       ELSE LET d == get_photo_date(FileTable[fs[filepath]], TRUE, TRUE) IN
            /\ photo_date' = d
            /\ new_path' = first_new_filepath(d)
            /\ counter' = 1
            /\ pc' = "sort_free"
            /\ UNCHANGED << si, skipped_count >>
    /\ UNCHANGED << fs, fs0, folders, image_paths, stale, errs, duplicate_groups, action, gi, ci,
                    answers, moved_count, deleted_count, processed_count, run, log,
                    d_in, d_out >>

samefile_never(f, p, q) == FALSE
samefile_always(f, p, q) == TRUE

\* os.path.samefile(filepath, new_filepath) of the collision loop
is_same_file(f, p, q) == samefile(f, p, q)

\* one test of "while os.path.exists(new_filepath)" and the body it guards; when the
\* source is gone os.path.samefile raises FileNotFoundError, which is passed over
SortFreeName ==
    /\ pc = "sort_free"
    /\ LET be == splitext(first_new_filepath(photo_date)) IN
       IF exists(fs, new_path) /\ ~(exists(fs, filepath) /\ is_same_file(fs, filepath, new_path))
       THEN /\ new_path' = Suffixed(be[1], counter, be[2])
            /\ counter' = counter + 1
            /\ pc' = "sort_free"
       ELSE pc' = "sort_move" /\ UNCHANGED << new_path, counter >>
    /\ UNCHANGED << fs, fs0, folders, image_paths, stale, errs, duplicate_groups, action, gi, ci,
                    answers, moved_count, deleted_count, si, photo_date,
                    processed_count, skipped_count, run, log, d_in, d_out >>

\* abspath(filepath) == abspath(new_filepath) and exists(new_filepath): nothing to do;
\* otherwise shutil.move
SortMove ==
    /\ pc = "sort_move"
    /\ IF filepath = new_path /\ exists(fs, new_path)
       THEN UNCHANGED << fs, processed_count, skipped_count, log >>
       ELSE IF exists(fs, filepath)
       THEN /\ fs' = Move(fs, filepath, new_path)
            /\ processed_count' = processed_count + 1
            /\ log' = Append(log, Entry("sort", filepath, new_path, fs))
            /\ UNCHANGED skipped_count
       ELSE /\ skipped_count' = skipped_count + 1      \* FileNotFoundError, caught
            /\ UNCHANGED << fs, processed_count, log >>
    /\ si' = si + 1
    /\ pc' = "sort_exists"
    /\ UNCHANGED << fs0, folders, image_paths, stale, errs, duplicate_groups, action, gi, ci,
                    answers, new_path, counter, moved_count, deleted_count, photo_date,
                    run, d_in, d_out >>

\* the program is run again on the sorted tree
Rescan ==
    /\ pc = "sort_done"
    /\ run = 1
    /\ folders' = << DestRoot >>
    /\ image_paths' = get_image_files(<< DestRoot >>, fs)
    /\ pc' = IF get_image_files(<< DestRoot >>, fs) = << >> THEN "exit" ELSE "scanned"
    /\ UNCHANGED << fs, fs0, stale, errs, duplicate_groups, action, gi, ci, answers,
                    new_path, counter, moved_count, deleted_count, si, photo_date,
                    processed_count, skipped_count, run, log, d_in, d_out >>

SortNext ==
    \/ Scan
    \/ ExternalRemove
    \/ SortStart
    \/ SortExists
    \/ SortFreeName
    \/ SortMove
    \/ Rescan

SortSpec == SortInit /\ [][SortNext]_vars

-----------------------------------------------------------------------------
(* get_photo_date on its own *)

TagValues == { Absent, EmptyStr, DateStr(2020, 5, 17), DateStr(999, 1, 1), DateStr(2019, 2, 29),
               DateStr(0, 0, 0), DashStr(2020, 5, 17), NotAStr }

DateInit ==
    /\ fs = << >> /\ folders = << >>
    /\ pc = "date"
    /\ fs0 = << >> /\ image_paths = << >> /\ stale = FALSE /\ duplicate_groups = << >>
    /\ errs = [stat |-> {}, read |-> {}]
    /\ action = "" /\ gi = 0 /\ ci = 0 /\ answers = << >>
    /\ new_path = NoPath /\ counter = 0 /\ moved_count = 0 /\ deleted_count = 0
    /\ si = 0 /\ photo_date = None /\ processed_count = 0 /\ skipped_count = 0
    /\ run = 0 /\ log = << >> /\ d_out = None
    /\ d_in \in [image : BOOLEAN, dto : TagValues, dtd : TagValues,
                 mtime : { Date(2019, 1, 2), Date(2021, 3, 4) },
                 exifOK : BOOLEAN, mtimeOK : BOOLEAN]

ResolveDate ==
    /\ pc = "date"
    /\ d_out' = get_photo_date(d_in, d_in.exifOK, d_in.mtimeOK)
    /\ pc' = "date_done"
    /\ UNCHANGED << fs, fs0, folders, image_paths, stale, errs, duplicate_groups, action, gi, ci,
                    answers, new_path, counter, moved_count, deleted_count, si, photo_date,
                    processed_count, skipped_count, run, log, d_in >>

DateSpec == DateInit /\ [][ResolveDate]_vars

-----------------------------------------------------------------------------
(* Filesystem calls that fail with an I/O or permission error.  Each action below is *)
(* one call raising (or, for os.path.exists, answering False) and what the code      *)
(* around that call does with the exception.                                         *)

\* os.makedirs(target_folder) raises OSError: the action falls back to "list"
HandleStartMkdirError ==
    /\ pc = "found"
    /\ { p \in DOMAIN fs : p.dir = TargetFolder } = {}
    /\ action' = "list"
    /\ IF duplicate_groups = << >>
       THEN pc' = "hd_done" /\ gi' = gi
       ELSE pc' = "hd_group" /\ gi' = 1
    /\ fs0' = fs
    /\ moved_count' = 0 /\ deleted_count' = 0
    /\ UNCHANGED << fs, folders, image_paths, stale, errs, duplicate_groups, ci, answers,
                    new_path, counter, si, photo_date,
                    processed_count, skipped_count, run, log, d_in, d_out >>

\* shutil.move / os.remove raises OSError: caught, printed, next duplicate
HandleActionError ==
    /\ pc \in { "hd_move", "hd_remove" }
    /\ ci' = ci + 1
    /\ pc' = "hd_exists"
    /\ UNCHANGED << fs, fs0, folders, image_paths, stale, errs, duplicate_groups, action, gi,
                    answers, new_path, counter, moved_count, deleted_count, si, photo_date,
                    processed_count, skipped_count, run, log, d_in, d_out >>

\* os.makedirs(destination_base_folder) raises OSError: "Tri annulé", return
SortStartMkdirError ==
    /\ pc = "scanned"
    /\ image_paths # << >>
    /\ { p \in DOMAIN fs : IsPrefix(DestRoot, p.dir) } = {}
    /\ pc' = "sort_done"
    /\ fs0' = fs
    /\ si' = 1
    /\ processed_count' = 0 /\ skipped_count' = 0
    /\ run' = run + 1
    /\ log' = << >>
    /\ UNCHANGED << fs, folders, image_paths, stale, errs, duplicate_groups, action, gi, ci,
                    answers, new_path, counter, moved_count, deleted_count, photo_date,
                    d_in, d_out >>

\* for the current file: os.path.exists answers False on a stat error, the EXIF read raises,
\* os.path.getmtime raises, os.makedirs(day_folder) raises
SortExistsIOError ==
    /\ pc = "sort_exists"
    /\ si <= Len(image_paths)
    /\ exists(fs, filepath)
    /\ \E statOK \in BOOLEAN, exifOK \in BOOLEAN, mtimeOK \in BOOLEAN, mkdirOK \in BOOLEAN :
         /\ ~(statOK /\ exifOK /\ mtimeOK /\ mkdirOK)
         /\ LET d == get_photo_date(FileTable[fs[filepath]], exifOK, mtimeOK) IN
            IF ~statOK \/ d = None \/ ~mkdirOK
            THEN /\ skipped_count' = skipped_count + 1
                 /\ si' = si + 1
                 /\ pc' = "sort_exists"
                 /\ UNCHANGED << photo_date, new_path, counter >>
            ELSE /\ photo_date' = d
                 /\ new_path' = first_new_filepath(d)
                 /\ counter' = 1
                 /\ pc' = "sort_free"
                 /\ UNCHANGED << si, skipped_count >>
    /\ UNCHANGED << fs, fs0, folders, image_paths, stale, errs, duplicate_groups, action, gi, ci,
                    answers, moved_count, deleted_count, processed_count, run, log,
                    d_in, d_out >>

\* os.path.samefile raises FileNotFoundError: passed over, the next suffix is tried
SortSamefileNotFound ==
    /\ pc = "sort_free"
    /\ exists(fs, new_path)
    /\ LET be == splitext(first_new_filepath(photo_date)) IN
       new_path' = Suffixed(be[1], counter, be[2])
    /\ counter' = counter + 1
    /\ UNCHANGED << fs, fs0, folders, image_paths, stale, errs, duplicate_groups, pc, action,
                    gi, ci, answers, moved_count, deleted_count, si, photo_date,
                    processed_count, skipped_count, run, log, d_in, d_out >>

\* os.path.samefile raises another OSError (PermissionError, EIO): only FileNotFoundError
\* is caught, so the exception leaves sort_photos
SortSamefileError ==
    /\ pc = "sort_free"
    /\ exists(fs, new_path)
    /\ pc' = "crashed"
    /\ UNCHANGED << fs, fs0, folders, image_paths, stale, errs, duplicate_groups, action,
                    gi, ci, answers, new_path, counter, moved_count, deleted_count, si,
                    photo_date, processed_count, skipped_count, run, log, d_in, d_out >>

\* shutil.move raises OSError: caught, the file is counted as skipped
SortMoveError ==
    /\ pc = "sort_move"
    /\ ~(filepath = new_path /\ exists(fs, new_path))
    /\ skipped_count' = skipped_count + 1
    /\ si' = si + 1
    /\ pc' = "sort_exists"
    /\ UNCHANGED << fs, fs0, folders, image_paths, stale, errs, duplicate_groups, action, gi, ci,
                    answers, new_path, counter, moved_count, deleted_count, photo_date,
                    processed_count, run, log, d_in, d_out >>

FaultInit ==
    /\ fs \in Layouts(PathD, {0, 2})
    /\ folders \in FolderLists({DirA, DirB})
    /\ pc = "scan"
    /\ Idle

FaultNext ==
    \/ Scan
    \/ FindDuplicates
    \/ HandleStart
    \/ HandleGroup
    \/ HandleExists
    \/ HandleFreeName
    \/ HandleMove
    \/ HandleRemove
    \/ SortStart
    \/ SortExists
    \/ SortFreeName
    \/ SortMove
    \/ FindDuplicatesIOError
    \/ HandleStartMkdirError
    \/ HandleActionError
    \/ SortStartMkdirError
    \/ SortExistsIOError
    \/ SortSamefileNotFound
    \/ SortSamefileError
    \/ SortMoveError

FaultSpec == FaultInit /\ [][FaultNext]_vars

-----------------------------------------------------------------------------
(* Another process working on the same files while handle_duplicates or sort_photos  *)
(* runs.  The steps of the two loops are the actions above; the actions below are    *)
(* the other process's, taken between any two of them.                               *)

\* the files the running pass is going to act on
RaceCandidates ==
    IF pc \in { "hd_group", "hd_exists", "hd_free", "hd_move", "hd_remove" }
    THEN UNION { Elems(Tail(duplicate_groups[g].val)) : g \in 1..Len(duplicate_groups) }
    ELSE Elems(image_paths)

RacePoints == { "hd_group", "hd_exists", "hd_free", "hd_move", "hd_remove",
                "sort_exists", "sort_free", "sort_move" }

\* where the other process moves a file to: out of the way, into the duplicates folder
\* or into the sorted tree
DirElsewhere == << << "elsewhere" >> >>
ExternalDestinations(p) == { join(DirElsewhere, basename(p)), PathT, PathD }

\* the other process deletes a candidate
ExternalDelete ==
    /\ pc \in RacePoints
    /\ ~stale
    /\ \E p \in RaceCandidates :
         /\ exists(fs, p)
         /\ fs' = Remove(fs, p)
         /\ log' = Append(log, Entry("ext_remove", p, NoPath, fs))
    /\ stale' = TRUE
    /\ UNCHANGED << fs0, folders, image_paths, errs, duplicate_groups, pc, action, gi, ci,
                    answers, new_path, counter, moved_count, deleted_count, si, photo_date,
                    processed_count, skipped_count, run, d_in, d_out >>

\* the other process moves a candidate to a path that is free
ExternalMove ==
    /\ pc \in RacePoints
    /\ ~stale
    /\ \E p \in RaceCandidates :
         \E q \in ExternalDestinations(p) :
             /\ exists(fs, p) /\ ~exists(fs, q)
             /\ fs' = Move(fs, p, q)
             /\ log' = Append(log, Entry("ext_move", p, q, fs))
    /\ stale' = TRUE
    /\ UNCHANGED << fs0, folders, image_paths, errs, duplicate_groups, pc, action, gi, ci,
                    answers, new_path, counter, moved_count, deleted_count, si, photo_date,
                    processed_count, skipped_count, run, d_in, d_out >>

\* os.path.exists(new_filepath) answers True, the other process then deletes the source
\* or the file at new_filepath, and os.path.samefile raises FileNotFoundError: passed
\* over, the next suffix is tried
SortSamefileRace ==
    /\ pc = "sort_free"
    /\ ~stale
    /\ exists(fs, new_path)
    /\ \E p \in { filepath, new_path } \cap RaceCandidates :
         /\ exists(fs, p)
         /\ fs' = Remove(fs, p)
         /\ log' = Append(log, Entry("ext_remove", p, NoPath, fs))
    /\ stale' = TRUE
    /\ LET be == splitext(first_new_filepath(photo_date)) IN
       new_path' = Suffixed(be[1], counter, be[2])
    /\ counter' = counter + 1
    /\ UNCHANGED << fs0, folders, image_paths, errs, duplicate_groups, pc, action, gi, ci,
                    answers, moved_count, deleted_count, si, photo_date,
                    processed_count, skipped_count, run, d_in, d_out >>

\* input folders of which none is another one or lies inside another one
Separate(fl) == \A a, b \in 1..Len(fl) : a # b => ~IsPrefix(fl[a], fl[b])

RaceInit ==
    /\ fs \in Layouts(PathD, {0, 2})
    /\ folders \in { fl \in FolderLists({DirA, DirSub, DirB}) : Separate(fl) }
    /\ pc = "scan"
    /\ Idle

RaceNext ==
    \/ Scan
    \/ FindDuplicates
    \/ HandleStart
    \/ HandleGroup
    \/ HandleExists
    \/ HandleFreeName
    \/ HandleMove
    \/ HandleRemove
    \/ SortStart
    \/ SortExists
    \/ SortFreeName
    \/ SortMove
    \/ ExternalDelete
    \/ ExternalMove
    \/ SortSamefileRace

RaceSpec == RaceInit /\ [][RaceNext]_vars

-----------------------------------------------------------------------------
(* Properties of find_duplicates *)

Detected == pc \notin { "scan", "scanned", "exit" }
GroupPaths(g) == Elems(duplicate_groups[g].val)
Groups == 1..Len(duplicate_groups)

\* C1: every group find_duplicates returns has at least 2 members, and no file (path)
\* appears in two different groups.
C1_GroupsArePartition ==
    Detected =>
        /\ \A g \in Groups : Len(duplicate_groups[g].val) >= 2
        /\ \A g, h \in Groups : g # h => GroupPaths(g) \cap GroupPaths(h) = {}

C1_Witness ==
    /\ pc = "found"
    /\ Len(duplicate_groups) = 2
    /\ \E g \in Groups : Cardinality(Range([p \in GroupPaths(g) |-> fs0[p]])) = 1

\* what the claim calls a file with a readable size and digest, in the filesystem
\* find_duplicates ran on (fs0)
SizeReadable(p) == exists(fs0, p) /\ p \notin errs.stat
DigestReadable(p) == exists(fs0, p) /\ FileTable[fs0[p]].readable /\ p \notin errs.read
Bytes(p) == FileTable[fs0[p]].content
SameSizeEntries(i) ==
    { j \in 1..Len(image_paths) :
        SizeReadable(image_paths[j]) /\ Size(Bytes(image_paths[j])) = Size(Bytes(image_paths[i])) }
InSameGroup(p, q) == \E g \in Groups : p \in GroupPaths(g) /\ q \in GroupPaths(g)
InAGroup(p) == \E g \in Groups : p \in GroupPaths(g)

\* C2: two entries of the input are in the same group iff both exist, both have a
\* readable size and digest and their bytes are equal; an entry whose size is unique,
\* whose size cannot be read or whose digest is None is in no group; the members of a
\* group are in input order (each group is the input list filtered to the group).
C2_ContentClasses ==
    pc = "found" =>
        /\ \A i, j \in 1..Len(image_paths) :
             i < j =>
               ( InSameGroup(image_paths[i], image_paths[j])
                 <=> /\ SizeReadable(image_paths[i]) /\ SizeReadable(image_paths[j])
                     /\ DigestReadable(image_paths[i]) /\ DigestReadable(image_paths[j])
                     /\ Bytes(image_paths[i]) = Bytes(image_paths[j]) )
        /\ \A i \in 1..Len(image_paths) :
             ( \/ ~SizeReadable(image_paths[i])
               \/ ~DigestReadable(image_paths[i])
               \/ SameSizeEntries(i) = {i} ) => ~InAGroup(image_paths[i])
        /\ \A g \in Groups :
             /\ duplicate_groups[g].val = SelectSeq(image_paths, LAMBDA p : p \in GroupPaths(g))
             /\ \A p \in GroupPaths(g) : duplicate_groups[g].key = md5(Bytes(p))

\* a group beside a file of the same bytes that cannot be read and a file whose size
\* cannot be read
C2_Witness ==
    /\ pc = "found"
    /\ Len(duplicate_groups) = 1
    /\ duplicate_groups[1].key = md5("X")
    /\ \E i \in 1..Len(image_paths) :
         /\ exists(fs0, image_paths[i]) /\ ~FileTable[fs0[image_paths[i]]].readable
         /\ Bytes(image_paths[i]) = "X"
    /\ \E i \in 1..Len(image_paths) :
         exists(fs0, image_paths[i]) /\ image_paths[i] \in errs.stat

-----------------------------------------------------------------------------
(* Properties of handle_duplicates *)

\* the filesystem after the k-th logged operation
After(k) == IF k < Len(log) THEN log[k + 1].pre ELSE fs
Handling == pc \in { "hd_group", "hd_exists", "hd_free", "hd_move", "hd_remove", "hd_done" }
Logged == 1..Len(log)
Candidates(g) == Elems(Tail(duplicate_groups[g].val))

\* C3: after handle_duplicates the first element of every group still exists at its path
\* with its content, and only the remaining elements were moved or deleted.
C3_OriginalKept ==
    pc = "hd_done" =>
        /\ \A g \in Groups :
             LET o == duplicate_groups[g].val[1] IN exists(fs, o) /\ fs[o] = fs0[o]
        /\ \A k \in Logged : log[k].src \in Candidates(log[k].grp)

Affirmative == { "o", "O" }
GroupDone(g) == g < gi \/ pc = "hd_done"

\* C4: under the delete policy a file is removed only after the confirmation of its own
\* group was answered affirmatively; a group whose confirmation is declined keeps every
\* file in place and adds nothing to the deleted count; every group is asked.
C4_DeleteNeedsConfirmation ==
    (Handling /\ action = "delete") =>
        /\ \A k \in Logged :
             /\ log[k].op = "delete"
             /\ log[k].grp <= Len(answers)
             /\ answers[log[k].grp] \in Affirmative
             /\ log[k].src \in GroupPaths(log[k].grp)
        /\ DOMAIN fs0 \ DOMAIN fs = { log[k].src : k \in Logged }
        /\ deleted_count = Cardinality(DOMAIN fs0) - Cardinality(DOMAIN fs)
        /\ \A g \in Groups :
             (g <= Len(answers) /\ answers[g] \notin Affirmative) =>
                 \A p \in GroupPaths(g) : exists(fs, p) /\ fs[p] = fs0[p]
        /\ \A g \in Groups : GroupDone(g) => g <= Len(answers)

\* a declined group followed by a confirmed one whose duplicate was deleted
C4_Witness ==
    /\ pc = "hd_done" /\ action = "delete"
    /\ Len(answers) = 2 /\ answers[1] = "oui" /\ answers[2] = "O"
    /\ deleted_count >= 1
    /\ \E k \in Logged : log[k].grp = 2

InTarget(f) == { p \in DOMAIN f : p.dir = TargetFolder }

\* the name with suffix n before the extension: name tokens, "_", digits of n, extension
WithSuffix(name, n) ==
    SubSeq(name, 1, Len(name) - 1) \o << "_" >> \o Str(n) \o << name[Len(name)] >>

\* C7: under the move policy every candidate still on disk goes to target_dir/basename,
\* or on a collision to the basename with the smallest suffix N >= 1 that is unused; the
\* search is bounded by the number of files in target_dir; a move changes nothing but the
\* moved file's path, so nothing in target_dir is overwritten; moved_count is the number
\* of files relocated, and every candidate of a finished group was relocated.
C7_MoveToFreeName ==
    (Handling /\ action = "move") =>
        /\ \A k \in Logged :
             LET e == log[k]
                 plain == join(TargetFolder, basename(e.src))
             IN  /\ e.op = "move"
                 /\ exists(e.pre, e.src) /\ ~exists(e.pre, e.dst)
                 /\ \/ e.dst = plain
                    \/ /\ exists(e.pre, plain)
                       /\ \E n \in 1..Cardinality(InTarget(e.pre)) :
                            /\ e.dst = join(TargetFolder, WithSuffix(basename(e.src), n))
                            /\ \A m \in 1..(n - 1) :
                                 exists(e.pre, join(TargetFolder, WithSuffix(basename(e.src), m)))
                 /\ exists(After(k), e.dst) /\ After(k)[e.dst] = e.pre[e.src]
                 /\ ~exists(After(k), e.src)
                 /\ \A p \in DOMAIN e.pre \ { e.src } :
                      exists(After(k), p) /\ After(k)[p] = e.pre[p]
        /\ pc = "hd_free" => counter <= Cardinality(InTarget(fs)) + 1
        /\ moved_count = Len(log)
        /\ Cardinality(DOMAIN fs) = Cardinality(DOMAIN fs0)
        /\ \A g \in Groups :
             GroupDone(g) =>
                 \A p \in Candidates(g) : \E k \in Logged : log[k].src = p /\ log[k].grp = g

\* two candidates named a.jpg moved into a target_dir that already held a.jpg
C7_Witness ==
    /\ pc = "hd_done" /\ action = "move"
    /\ exists(fs0, PathT)
    /\ moved_count = 2
    /\ exists(fs, join(TargetFolder, << "a", "_", "1", ".jpg" >>))
    /\ exists(fs, join(TargetFolder, << "a", "_", "2", ".jpg" >>))

-----------------------------------------------------------------------------
(* Properties of sort_photos *)

Sorting == pc \in { "sort_exists", "sort_free", "sort_move", "sort_done" }
UnderRoot(p) == IsPrefix(DestRoot, p.dir)

\* C5: a second run of sort_photos over the tree the first run produced moves nothing:
\* no path changes and the count of moved files stays 0.
C5_SecondRunMovesNothing ==
    (Sorting /\ run = 2) =>
        /\ processed_count = 0
        /\ log = << >>
        /\ fs = fs0
        /\ image_paths = get_image_files(<< DestRoot >>, fs0)

\* the second run ends over a tree that holds a suffixed file and two more
C5_Witness ==
    /\ pc = "sort_done" /\ run = 2
    /\ Len(image_paths) >= 3
    /\ \E i \in 1..Len(image_paths) :
         image_paths[i].name = << "a", "_", "1", "_", "1", ".jpg" >>

\* C6: a move of sort_photos never lands on a different file: when dir/basename holds
\* another file, that file stays and the source goes to the basename with the first
\* suffix N >= 1 whose name is not held by another file; no file is lost, and what was
\* under destination_root and is not itself moved keeps its path and content.
C6_SortNeverOverwrites ==
    (Sorting /\ run = 1) =>
        /\ \A k \in Logged :
             LET e == log[k]
                 plain == join(e.dst.dir, basename(e.src))
                 Other(p) == exists(e.pre, p) /\ e.pre[p] # e.pre[e.src]
             IN  /\ UnderRoot(e.dst)
                 /\ ~Other(e.dst)
                 /\ Other(plain) =>
                      /\ exists(After(k), plain) /\ After(k)[plain] = e.pre[plain]
                      /\ \E n \in 1..Cardinality(DOMAIN e.pre) :
                           /\ e.dst = join(e.dst.dir, WithSuffix(basename(e.src), n))
                           /\ \A m \in 1..(n - 1) :
                                Other(join(e.dst.dir, WithSuffix(basename(e.src), m)))
        /\ Range(fs) = Range(fs0)
        /\ \A p \in DOMAIN fs0 :
             (UnderRoot(p) /\ p \notin { log[k].src : k \in Logged }) =>
                 exists(fs, p) /\ fs[p] = fs0[p]

\* a source found its basename and the name with suffix 1 both held by other files
C6_Witness ==
    /\ pc = "sort_done" /\ run = 1
    /\ exists(fs0, PathD)
    /\ \E k \in Logged :
         /\ log[k].dst = join(Day20200517, << "a", "_", "2", ".jpg" >>)
         /\ log[k].pre[PathD] # log[k].pre[log[k].src]

RECURSIVE ZeroPad(_, _)
\* the digits of n, padded on the left with zeros to w characters
ZeroPad(digits, w) == IF Len(digits) >= w THEN digits ELSE ZeroPad(<< "0" >> \o digits, w)

\* C8: a file whose resolved date is (year, month, day) and whose basename is free at the
\* destination is placed at destination_root/<4-digit year>/<2-digit month>/<2-digit day>/basename.
C8_DatePath ==
    (Sorting /\ run = 1) =>
        \A k \in Logged :
            LET e == log[k]
                d == get_photo_date(FileTable[e.pre[e.src]], TRUE, TRUE)
                plain == join(DestRoot \o << ZeroPad(Str(d.y), 4), ZeroPad(Str(d.m), 2),
                                             ZeroPad(Str(d.d), 2) >>,
                              basename(e.src))
            IN  ~exists(e.pre, plain) => e.dst = plain /\ exists(After(k), plain)

-----------------------------------------------------------------------------
(* Properties of get_photo_date *)

\* the text is 'YYYY:MM:DD HH:MM:SS' and names a calendar date
Parses(v) ==
    /\ v.type = "str" /\ ~v.empty /\ v.sep = ":"
    /\ v.y >= 1 /\ v.y <= 9999 /\ v.m >= 1 /\ v.m <= 12 /\ v.d >= 1 /\ v.d <= DaysIn(v.y, v.m)
Present(v) == v.type # "none"
HasValue(v) == Present(v) /\ ~(v.type = "str" /\ v.empty)
MetadataRead == d_in.image /\ d_in.exifOK
Fallback == IF d_in.mtimeOK THEN d_in.mtime ELSE None

\* C9 as stated: DateTimeOriginal if present, else DateTimeDigitized; the modification
\* date when no tag is available, the metadata cannot be read or the chosen tag does not
\* parse; None only when the modification time cannot be read.
C9_AsStated ==
    pc = "date_done" =>
        LET chosen == IF Present(d_in.dto) THEN d_in.dto ELSE d_in.dtd IN
        /\ d_out = IF MetadataRead /\ Present(chosen) /\ Parses(chosen)
                   THEN Date(chosen.y, chosen.m, chosen.d)
                   ELSE Fallback
        /\ d_out = None => ~d_in.mtimeOK

\* C9 amended: DateTimeOriginal if present with a non-empty value, else DateTimeDigitized;
\* the rest as stated.
C9_DateOrder ==
    pc = "date_done" =>
        LET chosen == IF HasValue(d_in.dto) THEN d_in.dto ELSE d_in.dtd IN
        /\ d_out = IF MetadataRead /\ HasValue(chosen) /\ Parses(chosen)
                   THEN Date(chosen.y, chosen.m, chosen.d)
                   ELSE Fallback
        /\ d_out = None => ~d_in.mtimeOK

\* an empty DateTimeOriginal beside a DateTimeDigitized that parses
C9_Witness ==
    /\ pc = "date_done"
    /\ MetadataRead
    /\ d_in.dto = EmptyStr /\ d_in.dtd = DateStr(2020, 5, 17)
    /\ d_out = Date(2020, 5, 17)

-----------------------------------------------------------------------------
(* Failure handling *)

\* C10: whatever filesystem call fails on a file, find_duplicates, handle_duplicates and
\* sort_photos return normally after going through their whole input: no exception
\* leaves them, and they end with every group and every file visited.
C10_NoFailureEndsTheBatch ==
    /\ pc # "crashed"
    /\ pc = "hd_done" => (duplicate_groups = << >> \/ gi = Len(duplicate_groups) + 1)

-----------------------------------------------------------------------------
(* Repeated and nested input folders *)

\* C12: every group find_duplicates returns for the list get_image_files produced is made
\* of pairwise distinct paths, whatever the list of input folders (repeated or nested
\* folders included), and no file is moved or deleted as a duplicate of the group's
\* original when it is that original.
C12_GroupsAreSets ==
    Detected =>
        /\ \A g \in Groups :
             \A i, j \in 1..Len(duplicate_groups[g].val) :
                 i # j => duplicate_groups[g].val[i] # duplicate_groups[g].val[j]
        /\ \A k \in Logged : log[k].src # duplicate_groups[log[k].grp].val[1]

-----------------------------------------------------------------------------
(* Interference by another process *)

External == { k \in Logged : log[k].op \in { "ext_remove", "ext_move" } }
Own == Logged \ External
\* the files the other process deleted, and the ones the delete policy deleted
TakenAway == { log[k].pre[log[k].src] : k \in { j \in Logged : log[j].op \in { "ext_remove", "delete" } } }

\* C11: when another process moves or deletes a candidate between any two steps of
\* handle_duplicates or sort_photos, no exception leaves the pass, a path that is gone is
\* never acted on, every move lands on a free name in the folder it belongs to (the
\* duplicates folder, or the day folder of the moved file's date), and every file that
\* was there when the pass began and that nobody deleted is still there.
C11_InterferenceTolerated ==
    /\ pc # "crashed"
    /\ pc \in RacePoints \cup { "hd_done", "sort_done" } =>
         /\ \A k \in Own :
              LET e == log[k] IN
              /\ exists(e.pre, e.src)
              /\ e.op \in { "move", "sort" } =>
                   (~exists(e.pre, e.dst) \/ e.pre[e.dst] = e.pre[e.src])
              /\ e.op = "move" => e.dst.dir = TargetFolder
              /\ e.op = "sort" =>
                   e.dst.dir = day_folder(DestRoot,
                                          get_photo_date(FileTable[e.pre[e.src]], TRUE, TRUE))
         /\ Range(fs0) \ TakenAway \subseteq Range(fs)

====
